---- MODULE Spec2Model ----
(***************************************************************************)
(* Binary Gravitational Search Algorithm for feature selection             *)
(* (src/GSA2.2.PY): evaluate_solution and GSA_feature_selection.           *)
(*                                                                         *)
(* Floats are fixed-point integers: the float x is the integer x * ONE.    *)
(* eps = 1e-20 is far below the fixed-point resolution, so a denominator   *)
(* "x + eps" is kept as the pair <<x, e>> (e = 1: eps was added) and the   *)
(* quotient absorbs eps whenever x # 0, as float64 does to within 1e-14.   *)
(* The statements of GSA_feature_selection are the steps of the model:     *)
(* pc is the position in the function body.                                *)
(***************************************************************************)
EXTENDS Integers, Sequences, FiniteSets, TLC

\* ------------------------------------------------------------- bounds
MaxAgents == 3
MaxIter == 2
MaxDim == 2
\* largest num_agents * dim * max_iter of the runs checked for termination
MaxLiveWork == 8

\* ------------------------------------------------- fixed-point reals
\* the float 1.0
ONE == 1000
HALF == ONE \div 2
\* float('inf'): above every fitness
INF == 1000000
\* float nan / inf produced by a division by zero
NAN == 2000000
\* scale of ExpNeg's result: ExpNeg(x) = exp(-x) * EXPSCALE
EXPSCALE == 100000
\* exp(z) overflows float64 to inf for z > 709.78
EXP_OVERFLOW == 709782

\* draws of np.random.rand(): values of [0, 1)
RandSet == {0, HALF}
\* accuracies accuracy_score can return
AccSet == {0, ONE}

Abs(x) == IF x < 0 THEN -x ELSE x
Sgn(x) == IF x < 0 THEN -1 ELSE IF x > 0 THEN 1 ELSE 0
\* integer quotient rounded toward zero
TDiv(x, y) == Sgn(x) * Sgn(y) * (Abs(x) \div Abs(y))
\* float product x * y
Mul(x, y) == TDiv(x * y, ONE)

RECURSIVE SumSeq(_)
SumSeq(s) == IF Len(s) = 0 THEN 0 ELSE Head(s) + SumSeq(Tail(s))

RECURSIVE MinSeq(_)
MinSeq(s) == IF Len(s) = 1 THEN s[1]
             ELSE LET r == MinSeq(Tail(s)) IN IF s[1] <= r THEN s[1] ELSE r

RECURSIVE MaxSeq(_)
MaxSeq(s) == IF Len(s) = 1 THEN s[1]
             ELSE LET r == MaxSeq(Tail(s)) IN IF s[1] >= r THEN s[1] ELSE r

\* np.argmin: the first index of the minimum
ArgMin(s) == CHOOSE i \in 1..Len(s) :
                 /\ s[i] = MinSeq(s)
                 /\ \A j \in 1..(i - 1) : s[j] # s[i]

\* np.count_nonzero
CountNonzero(bv) == Cardinality({k \in 1..Len(bv) : bv[k] # 0})

\* the guard left out
NoEps(x) == <<x, 0>>
\* x + eps, eps = 1e-20
AddEps(x) == <<x, 1>>

DenIsZero(den) == den[1] = 0 /\ den[2] = 0

\* float quotient num / den, den a denominator built by AddEps
Div(num, den) ==
    IF num = NAN \/ den[1] = NAN THEN NAN
    ELSE IF den[1] # 0 THEN TDiv(num * ONE, den[1])
    ELSE IF den[2] # 0 THEN (IF num = 0 THEN 0 ELSE Sgn(num) * INF)
    ELSE NAN

\* exp(-k) * EXPSCALE for an integer k >= 0
RECURSIVE ExpNegInt(_)
ExpNegInt(k) == IF k = 0 THEN EXPSCALE
                ELSE IF k > 12 THEN 0
                ELSE (ExpNegInt(k - 1) * 3679) \div 10000

\* the Taylor series of exp(-f), 0 <= f < 1 (f in units of 1/ONE), from term n on
RECURSIVE ExpTaylor(_, _, _)
ExpTaylor(f, n, term) ==
    IF term = 0 \/ n > 12 THEN 0
    ELSE LET nxt == (term * f) \div (n * ONE)
         IN  (IF n % 2 = 1 THEN -nxt ELSE nxt) + ExpTaylor(f, n + 1, nxt)

\* np.exp(-x) * EXPSCALE for a fixed-point x >= 0
ExpNeg(x) ==
    LET k == x \div ONE
        f == x % ONE
        frac == EXPSCALE + ExpTaylor(f, 1, EXPSCALE)
    IN  (ExpNegInt(k) * (frac \div 10)) \div (EXPSCALE \div 10)

\* G = 100 * np.exp(-20 * t / max_iter)
GravConst(tt, T) == (100 * ExpNeg((20 * tt * ONE) \div T)) \div (EXPSCALE \div ONE)

\* S = 1 / (1 + np.exp(-v))
Sigmoid(v) ==
    LET e == ExpNeg(Abs(v))
    IN  IF v >= 0 THEN (EXPSCALE * ONE) \div (EXPSCALE + e)
        ELSE (e * ONE) \div (EXPSCALE + e)

\* S > u for a draw u: S is positive unless np.exp(-v) overflowed to inf
SigmoidGt(v, u) ==
    IF u = 0 THEN v > -EXP_OVERFLOW ELSE Sigmoid(v) > u

\* np.linalg.norm(x - y) of two binary vectors: sqrt of the Hamming distance
SqrtTable == [h \in 0..(MaxDim + 2) |->
                 CHOOSE r \in 0..(3 * ONE) :
                     r * r <= h * ONE * ONE /\ (r + 1) * (r + 1) > h * ONE * ONE]
Norm(x, y) == SqrtTable[Cardinality({k \in 1..Len(x) : x[k] # y[k]})]

\* ------------------------------------------------------------- state
VARIABLES
    num_agents, max_iter, dim,   \* the arguments of GSA_feature_selection
    acc,                         \* the k-NN accuracy of every non-empty mask
    pc,                          \* position in GSA_feature_selection
    t,                           \* the loop index
    X, V,                        \* positions and velocities
    V_prev,                      \* the array V named before line 103, until line 107
    fitness,                     \* fitness of the population, this iteration
    clf_calls,                   \* per agent: evaluate_solution fitted the classifier
    best_fitness, best_position, \* the global best
    M, G, a,                     \* masses, gravitational constant, accelerations
    div_zero,                    \* a division in this run had a zero denominator
    evaluated,                   \* every mask evaluate_solution was given
    history_fitness, history_num_features,
    feature_selection_counter, all_positions,
    score                        \* the returned 1.0 - best_fitness

vars == <<num_agents, max_iter, dim, acc, pc, t, X, V, V_prev, fitness, clf_calls,
          best_fitness, best_position, M, G, a, div_zero, evaluated,
          history_fitness, history_num_features, feature_selection_counter,
          all_positions, score>>

args == <<num_agents, max_iter, dim, acc>>
hist == <<history_fitness, history_num_features, feature_selection_counter,
          all_positions>>

\* best_position = None
None == <<-1>>

Masks(d) == [1..d -> {0, 1}]
NonZeroMasks(d) == {bv \in Masks(d) : CountNonzero(bv) # 0}
Agents == 1..num_agents
Dims == 1..dim
Zeros(d) == [k \in 1..d |-> 0]
ZeroMatrix == [i \in Agents |-> Zeros(dim)]

ValidConfig == num_agents > 0 /\ max_iter > 0 /\ dim > 0

\* ----------------------------------------------------- evaluate_solution
\* the early return dropped: the classifier is fitted on every mask
evaluate_solution_no_guard(binary_vector, accuracy) ==
    LET cnt == CountNonzero(binary_vector)
        a0 == IF cnt = 0 THEN 0 ELSE accuracy[binary_vector]
        penalty == IF Len(binary_vector) = 0 THEN 0
                   ELSE TDiv(cnt * ONE, Len(binary_vector))
    IN  [fit |-> ONE - (a0 - Mul(ONE \div 100, penalty)), clf |-> TRUE]

\* fit: the returned fitness; clf: whether clf.fit / clf.predict ran
evaluate_solution(binary_vector, accuracy) ==
    IF CountNonzero(binary_vector) = 0
    THEN [fit |-> ONE, clf |-> FALSE]
    ELSE LET penalty == TDiv(CountNonzero(binary_vector) * ONE, Len(binary_vector))
         IN  [fit |-> ONE - (accuracy[binary_vector] - Mul(ONE \div 100, penalty)),
              clf |-> TRUE]

\* ------------------------------------------------------------- Init
\* the call GSA_feature_selection(num_agents, max_iter, dim), with the dataset
\* and the classifier (acc) fixed
Init ==
    /\ num_agents \in -1..MaxAgents
    /\ max_iter \in -1..MaxIter
    /\ dim \in -1..MaxDim
    /\ acc \in [NonZeroMasks(dim) -> AccSet]
    /\ pc = "call"
    /\ t = 0
    /\ X = <<>> /\ V = <<>> /\ V_prev = <<>>
    /\ fitness = <<>> /\ clf_calls = <<>>
    /\ best_fitness = INF /\ best_position = None
    /\ M = <<>> /\ G = 0 /\ a = <<>>
    /\ div_zero = FALSE
    /\ evaluated = {}
    /\ history_fitness = <<>> /\ history_num_features = <<>>
    /\ feature_selection_counter = <<>> /\ all_positions = <<>>
    /\ score = 0

\* lines 57-67: np.random.randint raises ValueError on a negative dimension
Start ==
    /\ pc = "call"
    /\ IF num_agents < 0 \/ dim < 0
       THEN /\ pc' = "error"
            /\ UNCHANGED <<X, V, V_prev, feature_selection_counter>>
       ELSE /\ X' \in [Agents -> Masks(dim)]
            /\ V' = ZeroMatrix
            /\ V_prev' = ZeroMatrix
            /\ feature_selection_counter' = Zeros(dim)
            /\ pc' = "loop"
    /\ UNCHANGED <<args, t, fitness, clf_calls, best_fitness, best_position,
                   M, G, a, div_zero, evaluated, history_fitness,
                   history_num_features, all_positions, score>>

\* np.argmax in the place of np.argmin
BestIndexWorst(fit) == CHOOSE i \in 1..Len(fit) : fit[i] = MaxSeq(fit)
\* line 78: the row copied into best_position
BestIndex(fit) == ArgMin(fit)

\* the global best overwritten by every iteration's best
ImprovesAlways(best, bf) == TRUE
\* the strict comparison of line 76
Improves(best, bf) == best < bf
\* the loop left one iteration early
LoopStopsEarly(tt, T) == tt + 1 < T
\* the loop test of line 69
LoopContinues(tt, T) == tt < T

\* lines 69-79: fitness of the population and the global best; np.min of an
\* empty array raises ValueError
Evaluate ==
    /\ pc = "loop"
    /\ LoopContinues(t, max_iter)
    /\ LET ev == [i \in Agents |-> evaluate_solution(X[i], acc)]
           fit == [i \in Agents |-> ev[i].fit]
       IN  /\ fitness' = fit
           /\ clf_calls' = [i \in Agents |-> ev[i].clf]
           /\ evaluated' = evaluated \cup {X[i] : i \in Agents}
           /\ IF num_agents = 0
              THEN /\ pc' = "error"
                   /\ UNCHANGED <<best_fitness, best_position>>
              ELSE /\ pc' = "mass"
                   /\ IF Improves(MinSeq(fit), best_fitness)
                      THEN /\ best_fitness' = MinSeq(fit)
                           /\ best_position' = X[BestIndex(fit)]
                      ELSE UNCHANGED <<best_fitness, best_position>>
    /\ UNCHANGED <<args, t, X, V, V_prev, M, G, a, div_zero, hist, score>>

\* line 119: the return
Return ==
    /\ pc = "loop"
    /\ ~LoopContinues(t, max_iter)
    /\ pc' = "done"
    /\ score' = IF best_fitness = INF THEN -INF ELSE ONE - best_fitness
    /\ UNCHANGED <<args, t, X, V, V_prev, fitness, clf_calls, best_fitness,
                   best_position, M, G, a, div_zero, evaluated, hist>>

\* lines 81-84: the masses of a fitness vector.  den1 = best - worst + eps,
\* den2 = np.sum(m) + eps
MassOf(fit) ==
    LET best == MinSeq(fit)
        worst == MaxSeq(fit)
        den1 == AddEps(best - worst)
        m == [i \in 1..Len(fit) |-> Div(fit[i] - worst, den1)]
        den2 == AddEps(SumSeq(m))
    IN  [M |-> [i \in 1..Len(fit) |-> Div(m[i], den2)],
         zero |-> DenIsZero(den1) \/ DenIsZero(den2)]

\* lines 81-86: masses and the gravitational constant of iteration t
Masses ==
    /\ pc = "mass"
    /\ LET r == MassOf(fitness)
       IN  /\ M' = r.M
           /\ div_zero' = (div_zero \/ r.zero)
    /\ G' = GravConst(t, max_iter)
    /\ pc' = "force"
    /\ UNCHANGED <<args, t, X, V, V_prev, fitness, clf_calls, best_fitness,
                   best_position, a, evaluated, hist, score>>

\* the ordered pairs (i, j), i # j, of lines 90-93
Pairs == {p \in Agents \X Agents : p[1] # p[2]}

\* line 96: coordinate k of the force of agent j on agent i
Force(i, j, k) ==
    Div(Mul(Mul(G, M[i]), M[j]) * (X[j][k] - X[i][k]), AddEps(Norm(X[i], X[j])))

RECURSIVE SumOver(_, _, _, _)
\* line 98, summed over the agents j in js
SumOver(js, i, k, rnd) ==
    IF js = {} THEN 0
    ELSE LET j == CHOOSE x \in js : TRUE
         IN  Mul(rnd[<<i, j>>], Force(i, j, k)) + SumOver(js \ {j}, i, k, rnd)

\* lines 89-100: the accelerations, one random scalar per ordered pair
Accelerate ==
    /\ pc = "force"
    /\ \E rnd \in [Pairs -> RandSet] :
          a' = [i \in Agents |-> [k \in Dims |->
                   Div(SumOver(Agents \ {i}, i, k, rnd), AddEps(M[i]))]]
    /\ div_zero' = (div_zero
                    \/ \E i \in Agents : DenIsZero(AddEps(M[i]))
                    \/ \E p \in Pairs : DenIsZero(AddEps(Norm(X[p[1]], X[p[2]]))))
    /\ pc' = "velocity"
    /\ UNCHANGED <<args, t, X, V, V_prev, fitness, clf_calls, best_fitness,
                   best_position, M, G, evaluated, hist, score>>

\* the inertia factor omitted: V = V + a
NewVelocityNoInertia(v, acl, r) == v + acl
\* line 103, one coordinate: r * v + a
NewVelocity(v, acl, r) == Mul(r, v) + acl

\* line 103: np.random.rand(num_agents, dim) * V + a
UpdateVelocity ==
    /\ pc = "velocity"
    /\ \E r \in [Agents \X Dims -> RandSet] :
          V' = [i \in Agents |-> [k \in Dims |->
                   NewVelocity(V[i][k], a[i][k], r[<<i, k>>])]]
    /\ V_prev' = V
    /\ pc' = "position"
    /\ UNCHANGED <<args, t, X, fitness, clf_calls, best_fitness, best_position,
                   M, G, a, div_zero, evaluated, hist, score>>

\* the probability kept as the position: the threshold of line 107 left out
NewBitNoThreshold(v, u) == Sigmoid(v)
\* lines 105-107, one coordinate: (S > u).astype(int)
NewBit(v, u) == IF SigmoidGt(v, u) THEN 1 ELSE 0

\* lines 105-107: the new binary positions
UpdatePosition ==
    /\ pc = "position"
    /\ \E u \in [Agents \X Dims -> RandSet] :
          X' = [i \in Agents |-> [k \in Dims |-> NewBit(V[i][k], u[<<i, k>>])]]
    /\ V_prev' = V
    /\ pc' = "record"
    /\ UNCHANGED <<args, t, V, fitness, clf_calls, best_fitness, best_position,
                   M, G, a, div_zero, evaluated, hist, score>>

\* np.sum(X, axis=0)
ColumnSums == [k \in Dims |-> SumSeq([i \in Agents |-> X[i][k]])]

\* lines 110-114: the histories, then the next iteration
Record ==
    /\ pc = "record"
    /\ feature_selection_counter' =
           [k \in Dims |-> feature_selection_counter[k] + ColumnSums[k]]
    /\ history_fitness' = Append(history_fitness, best_fitness)
    /\ history_num_features' =
           Append(history_num_features, CountNonzero(best_position))
    /\ all_positions' = Append(all_positions, X)
    /\ t' = t + 1
    /\ pc' = "loop"
    /\ UNCHANGED <<args, X, V, V_prev, fitness, clf_calls, best_fitness, best_position,
                   M, G, a, div_zero, evaluated, score>>

Next ==
    \/ Start
    \/ Evaluate
    \/ Masses
    \/ Accelerate
    \/ UpdateVelocity
    \/ UpdatePosition
    \/ Record
    \/ Return

Spec == Init /\ [][Next]_vars

\* the calls checked for termination
InitLive == Init /\ num_agents * dim * max_iter <= MaxLiveWork

\* the interpreter runs the function to its end: no step is postponed forever
FairSpec == InitLive /\ [][Next]_vars /\ WF_vars(Next)

\* no quotient has a non-zero numerator over a bare eps
NoHugeQuotient ==
    \A i \in 1..Len(a) : \A k \in 1..Len(a[i]) : Abs(a[i][k]) < INF

\* ------------------------------------------------------------- claims

\* C1: the global best is overwritten only by a strictly smaller fitness (a
\* tie keeps the earlier best_position), so history_fitness is non-increasing:
\* for s < u, history_fitness[u] <= history_fitness[s].
C1_HistoryNonIncreasing ==
    /\ [](\A s, u \in 1..Len(history_fitness) :
             s < u => history_fitness[u] <= history_fitness[s])
    /\ [][\/ best_fitness' < best_fitness
          \/ best_fitness' = best_fitness /\ best_position' = best_position]_vars

\* an iteration whose best fitness is worse than the global best was recorded
C1_Witness ==
    /\ Len(history_fitness) = 2
    /\ pc = "loop"
    /\ MinSeq(fitness) > best_fitness
    /\ history_fitness[2] = history_fitness[1]

\* C2: with a valid configuration the loop performs exactly max_iter
\* iterations and then returns: the run reaches DONE, never an error, and on
\* return the three histories hold exactly max_iter entries.
C2_ExactlyMaxIter ==
    /\ ValidConfig => <>(pc = "done")
    /\ [](ValidConfig => pc # "error")
    /\ [](ValidConfig /\ pc = "done" =>
            /\ t = max_iter
            /\ Len(history_fitness) = max_iter
            /\ Len(history_num_features) = max_iter
            /\ Len(all_positions) = max_iter)

\* a run of two iterations returned, its population identical in both
C2_Witness ==
    /\ ValidConfig
    /\ pc = "done"
    /\ max_iter = 2
    /\ Len(all_positions) = 2
    /\ all_positions[1] = all_positions[2]

\* C3: in every iteration the masses lie in [0, 1] and sum to 1 within the
\* rounding of the arithmetic (one unit per agent), identical fitness included.
C3_MassesSumToOne ==
    ValidConfig /\ pc = "force" =>
        /\ \A i \in Agents : 0 <= M[i] /\ M[i] <= ONE
        /\ Abs(SumSeq(M) - ONE) <= num_agents

\* C4: with num_agents <= 0, max_iter <= 0 or dim <= 0 the call ends in an
\* error before any iteration: nothing is evaluated, no history entry is
\* appended and nothing is returned.
C4_InvalidConfigFailsFast ==
    ~ValidConfig =>
        /\ pc \in {"call", "loop", "error"}
        /\ evaluated = {}
        /\ Len(history_fitness) = 0

\* C5 (as claimed): every coordinate of agent i's previous velocity is
\* multiplied by one random scalar r_i: V_i = r_i * V_i + a_i.
C5_InertiaPerAgent ==
    pc = "position" =>
        \A i \in Agents : \E r \in RandSet : \A k \in Dims :
            V[i][k] = Mul(r, V_prev[i][k]) + a[i][k]

\* C5 (amended): every coordinate of every agent's previous velocity is
\* multiplied by a random value of its own:
\* V[i][k] = r[i][k] * V[i][k] + a[i][k].
C5_InertiaPerCoordinate ==
    pc = "position" =>
        \A i \in Agents : \A k \in Dims : \E r \in RandSet :
            V[i][k] = Mul(r, V_prev[i][k]) + a[i][k]

\* two coordinates of one agent's velocity were scaled by different draws
C5_Witness ==
    /\ pc = "position"
    /\ \E i \in Agents : \E k1, k2 \in Dims :
          /\ Mul(HALF, V_prev[i][k1]) # 0
          /\ Mul(HALF, V_prev[i][k2]) # 0
          /\ V[i][k1] = a[i][k1]
          /\ V[i][k2] = Mul(HALF, V_prev[i][k2]) + a[i][k2]

\* C6: every entry of the population is 0 or 1, after the initialisation and
\* after every position update, in X and in every recorded snapshot.
C6_PositionsBinary ==
    /\ \A i \in 1..Len(X) : \A k \in 1..Len(X[i]) : X[i][k] \in {0, 1}
    /\ \A n \in 1..Len(all_positions) : \A i \in 1..Len(all_positions[n]) :
          \A k \in 1..Len(all_positions[n][i]) :
              all_positions[n][i][k] \in {0, 1}

\* a position update from non-zero velocities produced both bit values
C6_Witness ==
    /\ pc = "record"
    /\ \E i \in Agents : \E k1, k2 \in Dims :
          /\ V[i][k1] > 0 /\ X[i][k1] = 1
          /\ V[i][k2] < 0 /\ X[i][k2] = 0

\* C7: for the all-zero mask evaluate_solution returns exactly 1.0 without
\* fitting the classifier; for a mask with a bit set the classifier is fitted.
C7_ZeroMaskSentinel ==
    pc = "mass" =>
        \A i \in Agents :
            /\ CountNonzero(X[i]) = 0 => fitness[i] = ONE /\ ~clf_calls[i]
            /\ CountNonzero(X[i]) # 0 => clf_calls[i]

\* a population holding an all-zero mask and a non-empty mask was evaluated
C7_Witness ==
    /\ pc = "mass"
    /\ \E i, j \in Agents :
          /\ CountNonzero(X[i]) = 0 /\ dim > 0
          /\ CountNonzero(X[j]) # 0 /\ fitness[j] # ONE

\* C8: no division of an iteration has a zero denominator.
C8_NoZeroDenominator == ~div_zero

\* an iteration with identical fitness, two agents at one position and
\* zero masses went through every division
C8_Witness ==
    /\ pc = "velocity"
    /\ num_agents >= 2
    /\ MinSeq(fitness) = MaxSeq(fitness)
    /\ X[1] = X[2]
    /\ M[1] = 0

\* C9: the returned score 1 - best_fitness lies in [0, 1] for every run with
\* a valid configuration.
C9_ScoreInUnitInterval ==
    ValidConfig /\ pc = "done" => 0 <= score /\ score <= ONE

\* C10: with num_agents >= 1, once an iteration is recorded best_position is
\* a row that was evaluated, evaluate_solution(best_position) = best_fitness,
\* and the last entry of history_num_features counts the 1 bits of
\* best_position; the position updates leave best_position alone.
C10_BestConsistent ==
    num_agents >= 1 /\ best_fitness # INF =>
        /\ best_position \in evaluated
        /\ evaluate_solution(best_position, acc).fit = best_fitness
        /\ (pc \in {"loop", "done"} /\ Len(history_num_features) >= 1 =>
               history_num_features[Len(history_num_features)]
                   = CountNonzero(best_position))

\* the population moved away from the recorded best
C10_Witness ==
    /\ pc = "loop"
    /\ Len(history_fitness) = 2
    /\ history_fitness[2] < history_fitness[1]
    /\ \A i \in Agents : X[i] # best_position
    /\ CountNonzero(best_position) > 0
====
